---- MODULE Spec2Model ----
(***************************************************************************)
(* Fat-Tree fabric of Fat-Tree/DCN_FatTree_Custom.cc (k = 4): the /30      *)
(* address plan of section 4, the static aggregated routing tables of      *)
(* section 5, and hop-by-hop longest-prefix-match forwarding through them. *)
(* Every loop body of main() is one action; the loop counters are state.   *)
(* Specification Spec (FairSpec with fairness of forwarding).              *)
(*                                                                         *)
(* Fat-Tree fabric of Fat-Tree/DCN_FatTree.cc: the unrolled link and       *)
(* address statements, global routing and its flows. Specification         *)
(* SpecFatTree.                                                            *)
(*                                                                         *)
(* Learning switches of l2-switch-protocol/l2-switch-protocol.cc: the MAC  *)
(* table of each switch of the three-switch chain and the frames on the    *)
(* CSMA links. Specification SpecL2 for the frames of the three hosts,     *)
(* SpecL2Any for any frame at any device of the middle switch.             *)
(*                                                                         *)
(* The programs share no state: each specification starts every program    *)
(* in its initial state and runs one of them.                              *)
(***************************************************************************)
EXTENDS Integers, Sequences, FiniteSets, TLC

VARIABLES pc, pod, server, lower, upper, i, j, coreLink, accessId, aggrId,
          interfaces, ipv4, routes, pkt

\* state of DCN_FatTree.cc
VARIABLES ftPc, ftDev, ftIface, ftRoutes, ftPkt

\* state of DCN_FatTree_Custom.cc
fabricVars == <<pc, pod, server, lower, upper, i, j, coreLink, accessId, aggrId,
                interfaces, ipv4, routes, pkt>>

ftVars == <<ftPc, ftDev, ftIface, ftRoutes, ftPkt>>

\* state of l2-switch-protocol.cc
VARIABLES l2Table, l2Wire, l2Rx, l2Sent, l2Last

l2Vars == <<l2Table, l2Wire, l2Rx, l2Sent, l2Last>>

vars == <<fabricVars, ftVars, l2Vars>>

\* what a step of DCN_FatTree_Custom.cc leaves alone
notFabric == <<ftVars, l2Vars>>

\* what a step of DCN_FatTree.cc leaves alone
notFt == <<fabricVars, l2Vars>>

\* what a step of l2-switch-protocol.cc leaves alone
notL2 == <<fabricVars, ftVars>>

counters == <<pod, server, lower, upper, i, j, coreLink, accessId, aggrId>>

\* ------------------------------------------------------------------------
\* Program constants
\* ------------------------------------------------------------------------
K == 4
NUM_PODS == K
NUM_CORE == (K \div 2) * (K \div 2)

\* Time-to-live of a forwarded packet, in nodes visited (bound of the model).
MaxHops == 8

\* ------------------------------------------------------------------------
\* Nodes, link keys, addresses
\* ------------------------------------------------------------------------
\* pods[pod].Get(n): 0-3 servers, 4-5 access switches, 6-7 aggregation switches
PodNode(p, n) == <<"pod", p, n>>
\* coreNodes.Get(c)
CoreNode(c) == <<"core", 0, c>>

Servers == {PodNode(p, n) : p \in 0..(NUM_PODS - 1), n \in 0..3}
AccessSwitches == {PodNode(p, n) : p \in 0..(NUM_PODS - 1), n \in 4..5}
AggrSwitches == {PodNode(p, n) : p \in 0..(NUM_PODS - 1), n \in 6..7}
CoreSwitches == {CoreNode(c) : c \in 0..(NUM_CORE - 1)}
Nodes == Servers \cup AccessSwitches \cup AggrSwitches \cup CoreSwitches

\* the string keys of the interfaces map
ServerKey(p, s) == <<"server", p, s, 0>>
LowerKey(p, lo, up) == <<"lower", p, lo, up>>
AggrKey(p, a, c) == <<"aggr", p, a, c>>

Pow2(n) == 2 ^ n

\* Ipv4Address("a.b.c.d"): each octet is accumulated in 8 bits
Ipv4Address(a, b, c, d) ==
    (((a % 256) * 256 + (b % 256)) * 256 + (c % 256)) * 256 + (d % 256)

\* Ipv4Mask::IsMatch, (a & mask) == (b & mask), for a mask of len leading one
\* bits; the mask of length 0 (default route) matches everything
IsMatch(len, a, b) ==
    IF len = 0 THEN TRUE
    ELSE (a \div Pow2(32 - len)) = (b \div Pow2(32 - len))

\* address.SetBase(subnet, "255.255.255.252"); address.Assign(link):
\* the two devices get host numbers 1 and 2 of the /30
Assign(subnet) == <<((subnet \div 4) * 4) + 1, ((subnet \div 4) * 4) + 2>>


\* ------------------------------------------------------------------------
\* Section 4: the address plan
\* ------------------------------------------------------------------------
\* ServerSubnet with the node number of the access switch (4, 5) as third octet
ServerSubnet_NodeNumber(p, s) ==
    Ipv4Address(10, p, IF s < 2 THEN 4 ELSE 5, s * 4)

\* "10." + pod + "." + switchId + "." + server*4, switchId = (server < 2) ? 0 : 1
ServerSubnet(p, s) ==
    Ipv4Address(10, p, IF s < 2 THEN 0 ELSE 1, s * 4)

\* SwitchSubnet with the access switch id as third octet
SwitchSubnet_LowerOctet(p, lowerId, upperId) ==
    Ipv4Address(10, p, lowerId, 16 + (lowerId * 2 + upperId) * 4)

\* "10." + pod + "." + (2 + upperId) + "." + (16 + linkId*4), linkId = lowerId*2 + upperId
SwitchSubnet(p, lowerId, upperId) ==
    Ipv4Address(10, p, 2 + upperId, 16 + (lowerId * 2 + upperId) * 4)

\* CoreSubnet with the second and third octets exchanged
CoreSubnet_OctetsSwapped(cl) ==
    Ipv4Address(10, cl \div 64, 10, (cl % 64) * 4)

\* CoreSubnet with the fourth octet not multiplied by 4
CoreSubnet_NoStride(cl) ==
    Ipv4Address(10, 10, cl \div 64, cl % 64)

\* "10.10." + coreLink/64 + "." + (coreLink % 64)*4
CoreSubnet(cl) ==
    Ipv4Address(10, 10, cl \div 64, (cl % 64) * 4)

\* One entry of an Ipv4StaticRouting table. nextHop = 0 is a directly connected
\* network (no gateway).
Route(dest, len, nextHop, iface) ==
    [dest |-> dest, len |-> len, nextHop |-> nextHop, iface |-> iface]

\* PointToPointHelper::Install(a, b) + address.SetBase + address.Assign(link) +
\* interfaces[key] = iface: each end gets a new Ipv4 interface (index = position,
\* loopback being 0) with its address and the connected /30 route.
InstallLink(key, a, b, subnet) ==
    LET ad == Assign(subnet)
        base == (subnet \div 4) * 4
    IN  /\ interfaces' = (key :> [addr |-> ad, node |-> <<a, b>>]) @@ interfaces
        /\ ipv4' = [ipv4 EXCEPT
              ![a] = Append(@, [local |-> ad[1], key |-> key]),
              ![b] = Append(@, [local |-> ad[2], key |-> key])]
        /\ routes' = [routes EXCEPT
              ![a] = Append(@, Route(base, 30, 0, Len(ipv4[a]) + 1)),
              ![b] = Append(@, Route(base, 30, 0, Len(ipv4[b]) + 1))]

\* Ipv4InterfaceContainer::GetAddress(n) of interfaces[key], n = 0 or 1
GetAddress(key, n) == interfaces[key].addr[n + 1]

\* Ipv4::GetInterfaceForAddress: the index of the interface holding addr, or -1
GetInterfaceForAddress(node, addr) ==
    IF \E x \in DOMAIN ipv4[node] : ipv4[node][x].local = addr
    THEN CHOOSE x \in DOMAIN ipv4[node] : ipv4[node][x].local = addr
    ELSE -1

\* AccessSwitchOf with the split after the third server
AccessSwitchOf_OffByOne(s) == IF s < 3 THEN 4 ELSE 5

\* int accessSwitch = (server < 2) ? 4 : 5
AccessSwitchOf(s) == IF s < 2 THEN 4 ELSE 5

\* 4.1, server loop body (lines 167-193)
ServerLink ==
    /\ pc = "4.1_server"
    /\ LET accessSwitch == AccessSwitchOf(server)
       IN  InstallLink(ServerKey(pod, server), PodNode(pod, server),
                       PodNode(pod, accessSwitch), ServerSubnet(pod, server))
    /\ IF server < 3
       THEN /\ server' = server + 1
            /\ UNCHANGED <<pc, lower, upper>>
       ELSE /\ pc' = "4.1_switch"
            /\ server' = 0
            /\ lower' = 4
            /\ upper' = 6
    /\ UNCHANGED <<pod, i, j, coreLink, accessId, aggrId, pkt>>
    /\ UNCHANGED notFabric

\* 4.1, access-aggregation loop body (lines 197-220)
SwitchLink ==
    /\ pc = "4.1_switch"
    /\ InstallLink(LowerKey(pod, lower - 4, upper - 6), PodNode(pod, lower),
                   PodNode(pod, upper), SwitchSubnet(pod, lower - 4, upper - 6))
    /\ IF upper < 7
       THEN /\ upper' = upper + 1
            /\ UNCHANGED <<pc, lower, pod>>
       ELSE IF lower < 5
       THEN /\ upper' = 6
            /\ lower' = lower + 1
            /\ UNCHANGED <<pc, pod>>
       ELSE /\ upper' = 0
            /\ lower' = 0
            /\ IF pod < NUM_PODS - 1
               THEN pod' = pod + 1 /\ pc' = "4.1_server"
               ELSE pod' = 0 /\ pc' = "4.2"
    /\ UNCHANGED <<server, i, j, coreLink, accessId, aggrId, pkt>>
    /\ UNCHANGED notFabric

\* CoreIdOf with group and sub-index exchanged
CoreIdOf_Transposed(ii, jj) == jj * (K \div 2) + ii

\* int coreId = i * (K/2) + j (link creation, line 229)
CoreIdOf(ii, jj) == ii * (K \div 2) + jj

\* 4.2, aggregation-core loop body (lines 226-260)
CoreLink ==
    /\ pc = "4.2"
    /\ LET coreId == CoreIdOf(i, j)
           aggrSwitch == 6 + i
       IN  InstallLink(AggrKey(pod, i, coreId), PodNode(pod, aggrSwitch),
                       CoreNode(coreId), CoreSubnet(coreLink))
    /\ coreLink' = coreLink + 1
    /\ IF pod < NUM_PODS - 1
       THEN /\ pod' = pod + 1
            /\ UNCHANGED <<pc, i, j>>
       ELSE IF j < (K \div 2) - 1
       THEN /\ pod' = 0
            /\ j' = j + 1
            /\ UNCHANGED <<pc, i>>
       ELSE IF i < (K \div 2) - 1
       THEN /\ pod' = 0
            /\ j' = 0
            /\ i' = i + 1
            /\ UNCHANGED pc
       ELSE /\ pod' = 0
            /\ j' = 0
            /\ i' = 0
            /\ pc' = "5.1"
    /\ UNCHANGED <<server, lower, upper, accessId, aggrId, pkt>>
    /\ UNCHANGED notFabric

\* ------------------------------------------------------------------------
\* Section 5: the static routing tables
\* ------------------------------------------------------------------------
\* Ipv4StaticRouting::AddNetworkRouteTo / SetDefaultRoute: entries are appended
AddRoutes(node, entries) ==
    routes' = [routes EXCEPT ![node] = @ \o entries]

\* OtherPods without the test otherPod != pod
OtherPods_All(p) ==
    SelectSeq([x \in 1..NUM_PODS |-> x - 1], LAMBDA q : q # p \/ q = p)

\* for (otherPod = 0; otherPod < NUM_PODS; otherPod++) if (otherPod != pod): in order
OtherPods(p) ==
    SelectSeq([x \in 1..NUM_PODS |-> x - 1], LAMBDA q : q # p)

\* ServerRouteEntries with the server end of the link as gateway
ServerRouteEntries_OwnEnd(p, s) ==
    <<Route(0, 0, GetAddress(ServerKey(p, s), 0), 1)>>

\* 5.1: staticRouting->SetDefaultRoute(gatewayIP, 1), gatewayIP the switch end
ServerRouteEntries(p, s) ==
    <<Route(0, 0, GetAddress(ServerKey(p, s), 1), 1)>>

\* 5.1, loop body (lines 269-285)
ServerRoute ==
    /\ pc = "5.1"
    /\ AddRoutes(PodNode(pod, server), ServerRouteEntries(pod, server))
    /\ IF server < 3
       THEN /\ server' = server + 1
            /\ UNCHANGED <<pc, pod>>
       ELSE /\ server' = 0
            /\ IF pod < NUM_PODS - 1
               THEN pod' = pod + 1 /\ UNCHANGED pc
               ELSE pod' = 0 /\ pc' = "5.2"
    /\ UNCHANGED <<lower, upper, i, j, coreLink, accessId, aggrId,
                   interfaces, ipv4, pkt>>
    /\ UNCHANGED notFabric

\* AccessUplinkKey through aggregation switch 1
AccessUplinkKey_Upper1(p, a) == LowerKey(p, a, 1)

\* AccessUplinkKey through the aggregation switch of the same index
AccessUplinkKey_OwnIndex(p, a) == LowerKey(p, a, a)

\* 5.2: key = pod<pod>_lower<accessId>_upper0 (always aggregation switch 0)
AccessUplinkKey(p, a) == LowerKey(p, a, 0)

\* OtherAccessId giving the switch itself
OtherAccessId_Self(a) == IF a = 0 THEN 0 ELSE 1

\* int otherAccessId = (accessId == 0) ? 1 : 0
OtherAccessId(a) == IF a = 0 THEN 1 ELSE 0

\* AccessRouteEntries with the interface of the link to aggregation switch 1
AccessRouteEntries_OtherIface(p, a) ==
    LET key == AccessUplinkKey(p, a)
        nextHop == GetAddress(key, 1)
        outInterface == GetInterfaceForAddress(PodNode(p, 4 + a),
                                               GetAddress(LowerKey(p, a, 1), 0))
        others == OtherPods(p)
    IN  <<Route(Ipv4Address(10, p, OtherAccessId(a), 0), 24, nextHop, outInterface)>>
        \o [x \in 1..Len(others) |->
              Route(Ipv4Address(10, others[x], 0, 0), 16, nextHop, outInterface)]

\* 5.2: the /24 of the other access switch, then one /16 per other pod
AccessRouteEntries(p, a) ==
    LET key == AccessUplinkKey(p, a)
        nextHop == GetAddress(key, 1)
        outInterface == GetInterfaceForAddress(PodNode(p, 4 + a), GetAddress(key, 0))
        others == OtherPods(p)
    IN  <<Route(Ipv4Address(10, p, OtherAccessId(a), 0), 24, nextHop, outInterface)>>
        \o [x \in 1..Len(others) |->
              Route(Ipv4Address(10, others[x], 0, 0), 16, nextHop, outInterface)]

\* 5.2, loop body (lines 289-340)
AccessRoute ==
    /\ pc = "5.2"
    /\ AddRoutes(PodNode(pod, 4 + accessId), AccessRouteEntries(pod, accessId))
    /\ IF accessId < 1
       THEN /\ accessId' = accessId + 1
            /\ UNCHANGED <<pc, pod>>
       ELSE /\ accessId' = 0
            /\ IF pod < NUM_PODS - 1
               THEN pod' = pod + 1 /\ UNCHANGED pc
               ELSE pod' = 0 /\ pc' = "5.3"
    /\ UNCHANGED <<server, lower, upper, i, j, coreLink, aggrId,
                   interfaces, ipv4, pkt>>
    /\ UNCHANGED notFabric

\* AggrDownEntries with the aggregation end of the link as next hop
AggrDownEntries_OwnEnd(p, g) ==
    [x \in 1..2 |->
       LET a == x - 1
           key == LowerKey(p, a, g)
       IN  Route(Ipv4Address(10, p, a, 0), 24, GetAddress(key, 1),
                 GetInterfaceForAddress(PodNode(p, 6 + g), GetAddress(key, 1)))]

\* AggrDownEntries through the link of the other access switch
AggrDownEntries_Swapped(p, g) ==
    [x \in 1..2 |->
       LET a == x - 1
           key == LowerKey(p, 1 - a, g)
       IN  Route(Ipv4Address(10, p, a, 0), 24, GetAddress(key, 0),
                 GetInterfaceForAddress(PodNode(p, 6 + g), GetAddress(key, 1)))]

\* 5.3 downward: one /24 per access switch of the pod (lines 353-374)
AggrDownEntries(p, g) ==
    [x \in 1..2 |->
       LET a == x - 1
           key == LowerKey(p, a, g)
       IN  Route(Ipv4Address(10, p, a, 0), 24, GetAddress(key, 0),
                 GetInterfaceForAddress(PodNode(p, 6 + g), GetAddress(key, 1)))]

\* AggrUpEntries with coreId computed without j
AggrUpEntries_FirstCore(p, g, jj) ==
    LET coreId == g * (K \div 2)
        coreKey == AggrKey(p, g, coreId)
        others == OtherPods(p)
    IN  [x \in 1..Len(others) |->
           Route(Ipv4Address(10, others[x], 0, 0), 16, GetAddress(coreKey, 1),
                 GetInterfaceForAddress(PodNode(p, 6 + g), GetAddress(coreKey, 0)))]

\* 5.3 upward, for one j: one /16 per other pod through core aggrId*(K/2)+j
\* (lines 379-400)
AggrUpEntries(p, g, jj) ==
    LET coreId == g * (K \div 2) + jj
        coreKey == AggrKey(p, g, coreId)
        others == OtherPods(p)
    IN  [x \in 1..Len(others) |->
           Route(Ipv4Address(10, others[x], 0, 0), 16, GetAddress(coreKey, 1),
                 GetInterfaceForAddress(PodNode(p, 6 + g), GetAddress(coreKey, 0)))]

RECURSIVE AggrUpFrom(_, _, _)
\* for (j = jj; j < K/2; j++) of 5.3
AggrUpFrom(p, g, jj) ==
    IF jj >= K \div 2 THEN <<>>
    ELSE AggrUpEntries(p, g, jj) \o AggrUpFrom(p, g, jj + 1)

AggrRouteEntries(p, g) == AggrDownEntries(p, g) \o AggrUpFrom(p, g, 0)

\* 5.3, loop body (lines 344-402)
AggrRoute ==
    /\ pc = "5.3"
    /\ AddRoutes(PodNode(pod, 6 + aggrId), AggrRouteEntries(pod, aggrId))
    /\ IF aggrId < 1
       THEN /\ aggrId' = aggrId + 1
            /\ UNCHANGED <<pc, pod>>
       ELSE /\ aggrId' = 0
            /\ IF pod < NUM_PODS - 1
               THEN pod' = pod + 1 /\ UNCHANGED pc
               ELSE pod' = 0 /\ pc' = "5.4"
    /\ UNCHANGED <<server, lower, upper, i, j, coreLink, accessId,
                   interfaces, ipv4, pkt>>
    /\ UNCHANGED notFabric

\* CoreRouteEntries with the mask 255.255.255.0
CoreRouteEntries_Slash24(ii, jj) ==
    LET coreId == ii * (K \div 2) + jj
    IN  [x \in 1..NUM_PODS |->
           LET key == AggrKey(x - 1, ii, coreId)
           IN  Route(Ipv4Address(10, x - 1, 0, 0), 24, GetAddress(key, 0),
                     GetInterfaceForAddress(CoreNode(coreId), GetAddress(key, 1)))]

\* CoreRouteEntries with the core end of the link as next hop
CoreRouteEntries_OwnEnd(ii, jj) ==
    LET coreId == ii * (K \div 2) + jj
    IN  [x \in 1..NUM_PODS |->
           LET key == AggrKey(x - 1, ii, coreId)
           IN  Route(Ipv4Address(10, x - 1, 0, 0), 16, GetAddress(key, 1),
                     GetInterfaceForAddress(CoreNode(coreId), GetAddress(key, 1)))]

\* CoreRouteEntries with the link of the next pod for each pod's /16
CoreRouteEntries_NextPod(ii, jj) ==
    LET coreId == ii * (K \div 2) + jj
    IN  [x \in 1..NUM_PODS |->
           LET key == AggrKey(x % NUM_PODS, ii, coreId)
           IN  Route(Ipv4Address(10, x - 1, 0, 0), 16, GetAddress(key, 0),
                     GetInterfaceForAddress(CoreNode(coreId), GetAddress(key, 1)))]

\* 5.4: one /16 per pod through the aggregation end of pod<p>_aggr<i>_core<coreId>
CoreRouteEntries(ii, jj) ==
    LET coreId == ii * (K \div 2) + jj
    IN  [x \in 1..NUM_PODS |->
           LET key == AggrKey(x - 1, ii, coreId)
           IN  Route(Ipv4Address(10, x - 1, 0, 0), 16, GetAddress(key, 0),
                     GetInterfaceForAddress(CoreNode(coreId), GetAddress(key, 1)))]

\* 5.4, loop body (lines 406-432)
CoreRoute ==
    /\ pc = "5.4"
    /\ AddRoutes(CoreNode(i * (K \div 2) + j), CoreRouteEntries(i, j))
    /\ IF j < (K \div 2) - 1
       THEN /\ j' = j + 1
            /\ UNCHANGED <<pc, i>>
       ELSE /\ j' = 0
            /\ IF i < (K \div 2) - 1
               THEN i' = i + 1 /\ UNCHANGED pc
               ELSE i' = 0 /\ pc' = "run"
    /\ UNCHANGED <<pod, server, lower, upper, coreLink, accessId, aggrId,
                   interfaces, ipv4, pkt>>
    /\ UNCHANGED notFabric

\* ------------------------------------------------------------------------
\* Forwarding through the configured tables
\* ------------------------------------------------------------------------
\* the addresses of a node's interfaces
LocalAddrs(n) == {ipv4[n][x].local : x \in DOMAIN ipv4[n]}

\* the table entries of node n that match dst
Matching(n, dst) ==
    {x \in DOMAIN routes[n] : IsMatch(routes[n][x].len, dst, routes[n][x].dest)}

\* longest-prefix match: the matching entries of greatest prefix length (all
\* entries have the same metric; several may tie)
LookupStatic(n, dst) ==
    {x \in Matching(n, dst) :
        \A y \in Matching(n, dst) : routes[n][y].len <= routes[n][x].len}

\* the node at the other end of the point-to-point link of interface ifx of n
Peer(n, ifx) ==
    LET ends == interfaces[ipv4[n][ifx].key].node
    IN  IF ends[1] = n THEN ends[2] ELSE ends[1]

NoPacket ==
    [status |-> "idle", src |-> PodNode(0, 0), dstNode |-> PodNode(0, 0),
     dst |-> 0, at |-> PodNode(0, 0), path |-> <<>>]

\* the outcomes of one forwarding step of packet p at node p.at
ForwardOutcomes(p) ==
    IF p.dst \in LocalAddrs(p.at)
    THEN {[p EXCEPT !.status = "delivered"]}
    ELSE IF Len(p.path) >= MaxHops
    THEN {[p EXCEPT !.status = "ttl"]}
    ELSE IF LookupStatic(p.at, p.dst) = {}
    THEN {[p EXCEPT !.status = "noroute"]}
    ELSE {IF routes[p.at][x].iface \in DOMAIN ipv4[p.at]
          THEN LET nxt == Peer(p.at, routes[p.at][x].iface)
               IN  [p EXCEPT !.at = nxt, !.path = Append(@, nxt)]
          ELSE [p EXCEPT !.status = "noroute"]
          : x \in LookupStatic(p.at, p.dst)}

\* a server sends a packet to the address of another server
\* (interfaces["pod<p>_server<s>"].GetAddress(0), as in section 6)
Send ==
    /\ pc = "run"
    /\ pkt.status # "flight"
    /\ \E sp \in 0..(NUM_PODS - 1), ss \in 0..3, dp \in 0..(NUM_PODS - 1), ds \in 0..3 :
         /\ <<sp, ss>> # <<dp, ds>>
         /\ pkt' = [status |-> "flight", src |-> PodNode(sp, ss),
                    dstNode |-> PodNode(dp, ds),
                    dst |-> GetAddress(ServerKey(dp, ds), 0),
                    at |-> PodNode(sp, ss), path |-> <<PodNode(sp, ss)>>]
    /\ UNCHANGED <<pc, counters, interfaces, ipv4, routes>>
    /\ UNCHANGED notFabric

\* one hop of the packet in flight
Forward ==
    /\ pc = "run"
    /\ pkt.status = "flight"
    /\ pkt' \in ForwardOutcomes(pkt)
    /\ UNCHANGED <<pc, counters, interfaces, ipv4, routes>>
    /\ UNCHANGED notFabric

\* ------------------------------------------------------------------------
\* DCN_FatTree.cc: the unrolled fabric with global routing
\* ------------------------------------------------------------------------
\* Cost above which a node counts as unreachable in the shortest-path search
\* (bound of the model; server to server across the core is 6 links).
FtMaxCost == 6

\* the NetDeviceContainer variables pod<p>_dev, pod<p>_dev2 .. pod<p>_dev8
PodDev(p, n) == <<"pod_dev", p, n>>
\* core_dev, core_dev2 .. core_dev16
CoreDev(n) == <<"core_dev", 0, n>>

\* sections 4.1-4.4, the eight Install statements of a pod in source order:
\* Server0,1 -> AccessSW4, Server2,3 -> AccessSW5, then access x aggregation
PodPairs ==
    << <<0, 4>>, <<1, 4>>, <<2, 5>>, <<3, 5>>,
       <<4, 6>>, <<4, 7>>, <<5, 6>>, <<5, 7>> >>

\* section 4.5, the sixteen Install statements in source order, as
\* <<pod, aggregation switch, core switch>>
CorePairs ==
    << <<0, 6, 0>>, <<1, 6, 0>>, <<2, 6, 0>>, <<3, 6, 0>>,
       <<0, 6, 1>>, <<1, 6, 1>>, <<2, 6, 1>>, <<3, 6, 1>>,
       <<0, 7, 2>>, <<1, 7, 2>>, <<2, 7, 2>>, <<3, 7, 2>>,
       <<0, 7, 3>>, <<1, 7, 3>>, <<2, 7, 3>>, <<3, 7, 3>> >>

NumPodStmts == NUM_PODS * Len(PodPairs)
NumStmts == NumPodStmts + Len(CorePairs)

\* statement s (1..NumStmts) of section 4: the container it assigns and the
\* two nodes it connects
InstallStmt(s) ==
    IF s <= NumPodStmts
    THEN LET p == (s - 1) \div Len(PodPairs)
             n == ((s - 1) % Len(PodPairs)) + 1
         IN  [dev |-> PodDev(p, n),
              a |-> PodNode(p, PodPairs[n][1]), b |-> PodNode(p, PodPairs[n][2])]
    ELSE LET n == s - NumPodStmts
         IN  [dev |-> CoreDev(n),
              a |-> PodNode(CorePairs[n][1], CorePairs[n][2]),
              b |-> CoreNode(CorePairs[n][3])]

\* statement s (1..NumStmts) of section 5: address.SetBase("10.<pod>.<n-1>.0")
\* for pod<p>_dev<n>, address.SetBase("10.10.<n-1>.0") for core_dev<n>
AssignStmt(s) ==
    IF s <= NumPodStmts
    THEN LET p == (s - 1) \div Len(PodPairs)
             n == ((s - 1) % Len(PodPairs)) + 1
         IN  [dev |-> PodDev(p, n), base |-> Ipv4Address(10, p, n - 1, 0)]
    ELSE LET n == s - NumPodStmts
         IN  [dev |-> CoreDev(n), base |-> Ipv4Address(10, 10, n - 1, 0)]

\* <container> = <helper>.Install(a, b)
FtInstall ==
    /\ ftPc.phase = "install"
    /\ LET st == InstallStmt(ftPc.stmt)
       IN  ftDev' = [d \in DOMAIN ftDev \cup {st.dev} |->
                       IF d = st.dev THEN <<st.a, st.b>> ELSE ftDev[d]]
    /\ ftPc' = IF ftPc.stmt = NumStmts
               THEN [phase |-> "assign", stmt |-> 1]
               ELSE [ftPc EXCEPT !.stmt = @ + 1]
    /\ UNCHANGED <<ftIface, ftRoutes, ftPkt>>
    /\ UNCHANGED notFt

\* address.SetBase(base, "255.255.255.252"); <iface> = address.Assign(<container>)
FtAssign ==
    /\ ftPc.phase = "assign"
    /\ LET st == AssignStmt(ftPc.stmt)
       IN  ftIface' = [d \in DOMAIN ftIface \cup {st.dev} |->
                         IF d = st.dev THEN Assign(st.base) ELSE ftIface[d]]
    /\ ftPc' = IF ftPc.stmt = NumStmts
               THEN [phase |-> "populate", stmt |-> 0]
               ELSE [ftPc EXCEPT !.stmt = @ + 1]
    /\ UNCHANGED <<ftDev, ftRoutes, ftPkt>>
    /\ UNCHANGED notFt

\* the nodes one link away from n
FtNeighbors(n) ==
    {m \in Nodes : \E d \in DOMAIN ftDev : ftDev[d] \in {<<n, m>>, <<m, n>>}}

\* the shortest-path search from the root outwards, every link of cost 1:
\* the nodes next to the frontier that have no cost yet get cost c + 1
RECURSIVE FtSpf(_, _, _, _)
FtSpf(adj, cost, frontier, c) ==
    IF frontier = {} \/ c = FtMaxCost
    THEN cost
    ELSE LET next == {n \in Nodes : cost[n] > FtMaxCost /\ adj[n] \cap frontier # {}}
         IN  FtSpf(adj, [n \in Nodes |-> IF n \in next THEN c + 1 ELSE cost[n]],
                   next, c + 1)

\* cost of the shortest path from every node to d (FtMaxCost + 1: none found)
FtCost(adj, d) ==
    FtSpf(adj, [n \in Nodes |-> IF n = d THEN 0 ELSE FtMaxCost + 1], {d}, 0)

\* Ipv4GlobalRoutingHelper::PopulateRoutingTables(): every node gets, for
\* every server, the neighbours that lie on a shortest path to it
PopulateRoutingTables ==
    LET adj == [n \in Nodes |-> FtNeighbors(n)]
    IN  [d \in Servers |->
           LET cost == FtCost(adj, d)
           IN  [n \in Nodes |->
                  {m \in adj[n] : cost[n] <= FtMaxCost /\ cost[m] + 1 = cost[n]}]]

FtPopulate ==
    /\ ftPc.phase = "populate"
    /\ ftRoutes' = PopulateRoutingTables
    /\ ftPc' = [phase |-> "run", stmt |-> 0]
    /\ UNCHANGED <<ftDev, ftIface, ftPkt>>
    /\ UNCHANGED notFt

\* section 7, the flows of the applications as <<source, destination>>: UDP
\* echo Pod1.Server0 -> Pod0.Server0 and its reply, TCP Pod3.Server0 ->
\* Pod2.Server0 and its acknowledgements
FtFlows ==
    {<<PodNode(1, 0), PodNode(0, 0)>>, <<PodNode(0, 0), PodNode(1, 0)>>,
     <<PodNode(3, 0), PodNode(2, 0)>>, <<PodNode(2, 0), PodNode(3, 0)>>}

FtNoPacket ==
    [status |-> "idle", dstNode |-> PodNode(0, 0), dst |-> 0,
     at |-> PodNode(0, 0), path |-> <<>>]

\* an application sends a packet to <iface>.GetAddress(0) of the peer's link
FtSend ==
    /\ ftPc.phase = "run"
    /\ ftPkt.status # "flight"
    /\ \E f \in FtFlows :
         ftPkt' = [status |-> "flight", dstNode |-> f[2],
                   dst |-> ftIface[PodDev(f[2][2], 1)][1],
                   at |-> f[1], path |-> <<f[1]>>]
    /\ UNCHANGED <<ftPc, ftDev, ftIface, ftRoutes>>
    /\ UNCHANGED notFt

\* one hop of the packet: Ipv4GlobalRouting takes one of the equal-cost
\* routes (a random one with RandomEcmpRouting, else the first of them)
FtForward ==
    /\ ftPc.phase = "run"
    /\ ftPkt.status = "flight"
    /\ IF ftPkt.at = ftPkt.dstNode
       THEN ftPkt' = [ftPkt EXCEPT !.status = "delivered"]
       ELSE IF ftRoutes[ftPkt.dstNode][ftPkt.at] = {}
       THEN ftPkt' = [ftPkt EXCEPT !.status = "noroute"]
       ELSE \E m \in ftRoutes[ftPkt.dstNode][ftPkt.at] :
              ftPkt' = [ftPkt EXCEPT !.at = m, !.path = Append(@, m)]
    /\ UNCHANGED <<ftPc, ftDev, ftIface, ftRoutes>>
    /\ UNCHANGED notFt

FtInit ==
    /\ ftPc = [phase |-> "install", stmt |-> 1]
    /\ ftDev = [d \in {} |-> 0]
    /\ ftIface = [d \in {} |-> 0]
    /\ ftRoutes = [d \in {} |-> 0]
    /\ ftPkt = FtNoPacket

\* ------------------------------------------------------------------------
\* l2-switch-protocol.cc: three learning switches in a chain
\* ------------------------------------------------------------------------
\* Frames the hosts send in one run (bound of the model).
MaxFrames == 2

\* hosts.Get(h): 0 Host A, 1 Host B, 2 Host C
Host(h) == <<"host", h>>
\* switches.Get(s)
Switch(s) == <<"switch", s>>

Hosts == {Host(h) : h \in 0..2}
Switches == {Switch(s) : s \in 0..2}

\* step 3 of main, the five csma.Install(link) blocks in source order, each
\* as the two nodes added to the link
L2Links ==
    << <<Host(0), Switch(0)>>, <<Switch(0), Switch(1)>>, <<Host(1), Switch(1)>>,
       <<Switch(1), Switch(2)>>, <<Host(2), Switch(2)>> >>

\* the ends of the links: <<link, end>>
LinkEnds == {<<k, e>> : k \in DOMAIN L2Links, e \in 1..2}

\* a device is <<node, GetIfIndex()>>: the index counts the devices that
\* were installed on the node before it
DeviceAt(k, e) ==
    <<L2Links[k][e],
      Cardinality({x \in LinkEnds : /\ L2Links[x[1]][x[2]] = L2Links[k][e]
                                    /\ x[1] < k})>>

\* node->GetNDevices()
GetNDevices(n) == Cardinality({x \in LinkEnds : L2Links[x[1]][x[2]] = n})

\* the device at the other end of the CSMA link of device d
PeerDevice(d) ==
    LET x == CHOOSE y \in LinkEnds : DeviceAt(y[1], y[2]) = d
    IN  DeviceAt(x[1], 3 - x[2])

\* Mac48Address::Allocate(): the devices get consecutive addresses in the
\* order they are created
Allocate(n) == <<0, 0, 0, 0, 0, n>>

\* device->GetAddress()
GetMac(d) ==
    LET x == CHOOSE y \in LinkEnds : DeviceAt(y[1], y[2]) = d
    IN  Allocate(2 * (x[1] - 1) + x[2])

\* Mac48Address::GetBroadcast(), ff:ff:ff:ff:ff:ff
Broadcast == <<255, 255, 255, 255, 255, 255>>

\* the CSMA device of host h
HostDevice(h) == <<Host(h), 0>>
HostMac(h) == GetMac(HostDevice(h))

\* step 7 of main, who talks to whom by unicast: the echo clients of Host A
\* and Host B address Host C, which answers them (echo replies, ARP replies
\* in both directions)
L2Flows == {<<0, 2>>, <<2, 0>>, <<1, 2>>, <<2, 1>>}

\* Learn that inserts new addresses and never moves a learned one
Learn_InsertOnly(table, source, inDevice) ==
    IF source \notin DOMAIN table
    THEN [m \in DOMAIN table \cup {source} |->
            IF m = source THEN inDevice ELSE table[m]]
    ELSE table

\* m_macTable.find(source) == end: insert; found on another device: overwrite
Learn(table, source, inDevice) ==
    IF source \notin DOMAIN table
    THEN [m \in DOMAIN table \cup {source} |->
            IF m = source THEN inDevice ELSE table[m]]
    ELSE IF table[source] # inDevice
    THEN [table EXCEPT ![source] = inDevice]
    ELSE table

\* GetLearnedPort with a table that finds no address
GetLearnedPort_NotFound(table, destination) == -1

\* the learned device index, -1 for nullptr
GetLearnedPort(table, destination) ==
    IF destination \in DOMAIN table THEN table[destination] ELSE -1

\* ForwardUnicast that sends the packet and its copy
ForwardUnicast_Twice(outDevice) == <<outDevice, outDevice>>

\* ForwardUnicast: outDevice->SendFrom(...), as the SendFrom calls in order
ForwardUnicast(outDevice) == <<outDevice>>

\* ForwardBroadcast without the device != inDevice test
ForwardBroadcast_AllPorts(node, inDevice) ==
    [n \in 1..GetNDevices(node) |-> n - 1]

\* ForwardBroadcast: the loop over m_node->GetDevice(i), SendFrom on every
\* device but inDevice, as the SendFrom calls in order
ForwardBroadcast(node, inDevice) ==
    SelectSeq([n \in 1..GetNDevices(node) |-> n - 1], LAMBDA dv : dv # inDevice)

\* the forwarding decision that floods whenever it does not forward by unicast
Decision_FloodOnSamePort(node, table, inDevice, dstMac) ==
    IF dstMac = Broadcast
    THEN [mode |-> "broadcast", out |-> ForwardBroadcast(node, inDevice)]
    ELSE LET outDevice == GetLearnedPort(table, dstMac)
         IN  IF outDevice # -1 /\ outDevice # inDevice
             THEN [mode |-> "unicast", out |-> ForwardUnicast(outDevice)]
             ELSE [mode |-> "flood", out |-> ForwardBroadcast(node, inDevice)]

\* step 2 of ReceiveFromDevice, the forwarding decision after Learn:
\* what is done and the devices the frame is sent from
Decision(node, table, inDevice, dstMac) ==
    IF dstMac = Broadcast
    THEN [mode |-> "broadcast", out |-> ForwardBroadcast(node, inDevice)]
    ELSE LET outDevice == GetLearnedPort(table, dstMac)
         IN  IF outDevice # -1 /\ outDevice # inDevice
             THEN [mode |-> "unicast", out |-> ForwardUnicast(outDevice)]
             ELSE IF outDevice = -1
             THEN [mode |-> "flood", out |-> ForwardBroadcast(node, inDevice)]
             ELSE [mode |-> "drop", out |-> <<>>]

NoDecision ==
    [node |-> Switch(0), inDevice |-> 0, src |-> Broadcast, dst |-> Broadcast,
     mode |-> "none", out |-> <<>>]

\* the devices of the switches, each with the frames on their way to it
SwitchDevices ==
    {DeviceAt(x[1], x[2]) : x \in {y \in LinkEnds : L2Links[y[1]][y[2]] \in Switches}}

\* the copies a device sends arrive at the other end of its link in the
\* order they were sent: those for a switch are appended to the frames on
\* their way to it
Enqueue(wire, copies) ==
    [d \in SwitchDevices |-> wire[d] \o SelectSeq(copies, LAMBDA c : c.at = d)]

\* a host hands a frame to its CSMA device: the frame is on the link, on its
\* way to the device at the other end. known and trail are history: whether
\* every switch had learned the destination when the frame was sent, and the
\* switches the copy went through with what each did.
L2Send ==
    /\ Len(l2Sent) < MaxFrames
    /\ \E h \in 0..2 :
         \E dst \in {Broadcast} \cup {HostMac(f[2]) : f \in {g \in L2Flows : g[1] = h}} :
           LET fr == [id |-> Len(l2Sent) + 1, src |-> HostMac(h), dst |-> dst,
                      at |-> PeerDevice(HostDevice(h)),
                      known |-> \A s \in Switches : dst \in DOMAIN l2Table[s],
                      trail |-> <<>>]
           IN  /\ l2Wire' = Enqueue(l2Wire, <<fr>>)
               /\ l2Sent' = Append(l2Sent, fr)
    /\ UNCHANGED <<l2Table, l2Rx, l2Last>>
    /\ UNCHANGED notL2

\* the addresses a frame can carry as its source
HostMacs == {HostMac(h) : h \in 0..2}

\* the devices of Switch 1, the switch with a link to each other switch and
\* to a host
MiddleDevices == {d \in SwitchDevices : d[1] = Switch(1)}

\* the promiscuous callback takes whatever frame reaches a device: a frame
\* with any source and destination address arrives at any device of Switch 1
\* (a station that moved to another link, a frame addressed to its sender),
\* one frame at a time; the other switches handle the copies it forwards
L2Inject ==
    /\ Len(l2Sent) < MaxFrames
    /\ \A d \in SwitchDevices : l2Wire[d] = <<>>
    /\ \E d \in MiddleDevices, src \in HostMacs, dst \in HostMacs \cup {Broadcast} :
         LET fr == [id |-> Len(l2Sent) + 1, src |-> src, dst |-> dst, at |-> d,
                    known |-> \A s \in Switches : dst \in DOMAIN l2Table[s],
                    trail |-> <<>>]
         IN  /\ l2Wire' = Enqueue(l2Wire, <<fr>>)
             /\ l2Sent' = Append(l2Sent, fr)
    /\ UNCHANGED <<l2Table, l2Rx, l2Last>>
    /\ UNCHANGED notL2

\* L2SwitchProtocol::ReceiveFromDevice, the promiscuous callback of every
\* device of a switch, for the next frame that arrives at the device. A copy
\* sent from a device whose link leads to a host has reached that host's
\* device, a copy sent towards a switch is on the link until that switch's
\* callback runs.
ReceiveFromDevice ==
    \E d \in SwitchDevices :
      /\ l2Wire[d] # <<>>
      /\ LET fr == Head(l2Wire[d])
             node == d[1]
             inDevice == d[2]
             table == Learn(l2Table[node], fr.src, inDevice)
             dec == Decision(node, table, inDevice, fr.dst)
             sent == [k \in DOMAIN dec.out |->
                        [fr EXCEPT !.at = PeerDevice(<<node, dec.out[k]>>),
                                   !.trail = Append(@, <<node, dec.mode>>)]]
         IN  /\ l2Table' = [l2Table EXCEPT ![node] = table]
             /\ l2Wire' = Enqueue([l2Wire EXCEPT ![d] = Tail(@)], sent)
             /\ l2Rx' = l2Rx \cup {sent[k] : k \in {x \in DOMAIN sent : sent[x].at[1] \in Hosts}}
             /\ l2Last' = [node |-> node, inDevice |-> inDevice, src |-> fr.src,
                           dst |-> fr.dst, mode |-> dec.mode, out |-> dec.out]
      /\ UNCHANGED l2Sent
      /\ UNCHANGED notL2

L2Init ==
    /\ l2Table = [s \in Switches |-> [m \in {} |-> 0]]
    /\ l2Wire = [d \in SwitchDevices |-> <<>>]
    /\ l2Rx = {}
    /\ l2Sent = <<>>
    /\ l2Last = NoDecision

\* ------------------------------------------------------------------------
\* Specifications
\* ------------------------------------------------------------------------
Init ==
    /\ pc = "4.1_server"
    /\ pod = 0 /\ server = 0 /\ lower = 0 /\ upper = 0
    /\ i = 0 /\ j = 0 /\ coreLink = 0 /\ accessId = 0 /\ aggrId = 0
    /\ interfaces = [k \in {} |-> 0]
    /\ ipv4 = [n \in Nodes |-> <<>>]
    /\ routes = [n \in Nodes |-> <<>>]
    /\ pkt = NoPacket
    /\ FtInit
    /\ L2Init

Next ==
    \/ ServerLink
    \/ SwitchLink
    \/ CoreLink
    \/ ServerRoute
    \/ AccessRoute
    \/ AggrRoute
    \/ CoreRoute
    \/ Send
    \/ Forward

Spec == Init /\ [][Next]_vars

\* the forwarding engine always takes the next hop of a packet in flight
FairSpec == Spec /\ WF_vars(Forward)

Configured == pc = "run"

NextFatTree ==
    \/ FtInstall
    \/ FtAssign
    \/ FtPopulate
    \/ FtSend
    \/ FtForward

SpecFatTree == Init /\ [][NextFatTree]_vars

FtConfigured == ftPc.phase = "run"

NextL2 ==
    \/ L2Send
    \/ ReceiveFromDevice

SpecL2 == Init /\ [][NextL2]_vars

\* the switches under any frame, not only those the three hosts send
NextL2Any ==
    \/ L2Inject
    \/ ReceiveFromDevice

SpecL2Any == Init /\ [][NextL2Any]_vars

\* ------------------------------------------------------------------------
\* Vocabulary of the properties
\* ------------------------------------------------------------------------
\* the tier of a node (pod node numbering of lines 156-159)
Role(n) ==
    IF n[1] = "core" THEN "core"
    ELSE IF n[3] < 4 THEN "server"
    ELSE IF n[3] < 6 THEN "access"
    ELSE "aggr"

\* the entries the routing configuration of section 5 added to node n
\* (all have a gateway; the connected /30 routes have none)
Synthesized(n) == SelectSeq(routes[n], LAMBDA e : e.nextHop # 0)

\* the nodes at the other ends of the links of n
Neighbors(n) == {Peer(n, x) : x \in DOMAIN ipv4[n]}

\* the interface of n on link key (0 when n is not on the link)
IfaceOn(n, key) ==
    IF \E x \in DOMAIN ipv4[n] : ipv4[n][x].key = key
    THEN CHOOSE x \in DOMAIN ipv4[n] : ipv4[n][x].key = key
    ELSE 0

\* the address of node n on link key
AddrOn(n, key) == ipv4[n][IfaceOn(n, key)].local

\* the /30 of a link, as the set of its four addresses
SubnetOf(key) ==
    LET base == (interfaces[key].addr[1] \div 4) * 4
    IN  base..(base + 3)

ServerKeys == {k \in DOMAIN interfaces : k[1] = "server"}
LowerKeys == {k \in DOMAIN interfaces : k[1] = "lower"}
AggrKeys == {k \in DOMAIN interfaces : k[1] = "aggr"}

\* the tiers a packet from server a to server b is expected to traverse
ExpectedTiers(a, b) ==
    IF a[2] = b[2] /\ (a[3] \div 2) = (b[3] \div 2)
    THEN <<"server", "access", "server">>
    ELSE IF a[2] = b[2]
    THEN <<"server", "access", "aggr", "access", "server">>
    ELSE <<"server", "access", "aggr", "core", "aggr", "access", "server">>

PathTiers == [x \in DOMAIN pkt.path |-> Role(pkt.path[x])]

InFlight == pkt.status = "flight"

DeliveredWithinBound ==
    /\ pkt.status = "delivered"
    /\ pkt.at = pkt.dstNode
    /\ PathTiers = ExpectedTiers(pkt.src, pkt.dstNode)

\* ------------------------------------------------------------------------
\* Properties
\* ------------------------------------------------------------------------
\* C1: every packet sent from a server to another server is eventually
\* delivered to that server, through exactly the access switch (same access
\* switch), access-aggregation-access (same pod) or
\* access-aggregation-core-aggregation-access (other pod).
C1_ReachesWithinBound == InFlight ~> DeliveredWithinBound

C1_Witness ==
    /\ DeliveredWithinBound
    /\ Len(pkt.path) = 7

\* C2: the nodes visited by a packet are pairwise distinct.
C2_NoRevisit ==
    \A x, y \in DOMAIN pkt.path : x # y => pkt.path[x] # pkt.path[y]

C2_Witness ==
    /\ pkt.status = "flight"
    /\ Len(pkt.path) = 6
    /\ pkt.src[2] # pkt.dstNode[2]

\* C3: once the topology is built there are 16 server-access, 16
\* access-aggregation and 16 aggregation-core links, the two ends of a link
\* lie in the link's one /30, and the /30s of distinct links are disjoint
\* (at every point of the construction).
C3_SubnetsDisjoint ==
    /\ \A k \in DOMAIN interfaces :
          /\ interfaces[k].addr[1] \in SubnetOf(k)
          /\ interfaces[k].addr[2] \in SubnetOf(k)
          /\ interfaces[k].addr[1] # interfaces[k].addr[2]
    /\ \A k1, k2 \in DOMAIN interfaces :
          k1 # k2 => SubnetOf(k1) \cap SubnetOf(k2) = {}
    /\ Configured =>
          /\ Cardinality(ServerKeys) = 16
          /\ Cardinality(LowerKeys) = 16
          /\ Cardinality(AggrKeys) = 16

C3_Witness ==
    /\ Configured
    /\ Cardinality(DOMAIN interfaces) = 48

\* the /24 entries access switch a of pod p holds for access switch sib
SiblingAggregates(p, a, sib) ==
    {x \in DOMAIN routes[PodNode(p, 4 + a)] :
        /\ routes[PodNode(p, 4 + a)][x].nextHop # 0
        /\ routes[PodNode(p, 4 + a)][x].len = 24
        /\ routes[PodNode(p, 4 + a)][x].dest = Ipv4Address(10, p, sib, 0)}

\* C4: the /24 an access switch installs for its sibling matches both
\* addresses of every server link of the sibling and no address of a node
\* outside the pod.
C4_AggregateCoversSibling ==
    Configured =>
      \A p \in 0..(NUM_PODS - 1), a \in 0..1 :
        LET sib == 1 - a
            me == PodNode(p, 4 + a)
        IN  /\ SiblingAggregates(p, a, sib) # {}
            /\ \A x \in SiblingAggregates(p, a, sib) :
                 /\ \A k \in ServerKeys :
                      interfaces[k].node[2] = PodNode(p, 4 + sib) =>
                        /\ IsMatch(24, interfaces[k].addr[1], routes[me][x].dest)
                        /\ IsMatch(24, interfaces[k].addr[2], routes[me][x].dest)
                 /\ \A n \in Nodes :
                      (n[1] = "core" \/ n[2] # p) =>
                        \A ad \in LocalAddrs(n) :
                          ~IsMatch(24, ad, routes[me][x].dest)

C4_Witness ==
    /\ Configured
    /\ SiblingAggregates(3, 0, 1) # {}
    /\ \E k \in ServerKeys : interfaces[k].node[2] = PodNode(3, 5)

\* C5: at Pod0.AccessSwitch1 the lookup of 10.0.0.1, the address of the first
\* server of Pod0.AccessSwitch0, selects exactly the entry 10.0.0.0/24 whose
\* next hop is aggregation switch 0's address on the link
\* AccessSwitch1-AggregationSwitch0, and the table has no /30 entry matching
\* that address.
C5_LookupSelectsAggregate ==
    Configured =>
      LET me == PodNode(0, 5)
          dst == Ipv4Address(10, 0, 0, 1)
      IN  /\ GetAddress(ServerKey(0, 0), 0) = dst
          /\ interfaces[ServerKey(0, 0)].node = <<PodNode(0, 0), PodNode(0, 4)>>
          /\ LookupStatic(me, dst) # {}
          /\ \A x \in LookupStatic(me, dst) :
               /\ routes[me][x].dest = Ipv4Address(10, 0, 0, 0)
               /\ routes[me][x].len = 24
               /\ routes[me][x].nextHop = AddrOn(PodNode(0, 6), LowerKey(0, 1, 0))
               /\ routes[me][x].nextHop = Ipv4Address(10, 0, 2, 26)
          /\ Cardinality(LookupStatic(me, dst)) = 1
          /\ \A x \in DOMAIN routes[me] :
               routes[me][x].len = 30 => ~IsMatch(30, dst, routes[me][x].dest)

C5_Witness ==
    /\ Configured
    /\ LookupStatic(PodNode(0, 5), Ipv4Address(10, 0, 0, 1)) # {}
    /\ pkt.status = "flight"
    /\ pkt.at = PodNode(0, 5)
    /\ pkt.dst = Ipv4Address(10, 0, 0, 1)

\* the aggregation switches of pod p that are neighbours of core switch c
AggrNeighborsIn(c, p) ==
    {n \in Neighbors(CoreNode(c)) : Role(n) = "aggr" /\ n[2] = p}

\* C6: a core switch's table has exactly 4 synthesized entries, for each pod
\* exactly one, 10.<pod>.0.0/16, and its next hop is the address, on the
\* shared link, of the core switch's one aggregation neighbour in that pod.
C6_CoreTable ==
    Configured =>
      \A c \in 0..(NUM_CORE - 1) :
        LET t == Synthesized(CoreNode(c))
        IN  /\ Len(t) = 4
            /\ \A p \in 0..(NUM_PODS - 1) :
                 /\ Cardinality({x \in DOMAIN t :
                        t[x].dest = Ipv4Address(10, p, 0, 0) /\ t[x].len = 16}) = 1
                 /\ Cardinality(AggrNeighborsIn(c, p)) = 1
                 /\ \A x \in DOMAIN t :
                      t[x].dest = Ipv4Address(10, p, 0, 0) =>
                        \E n \in AggrNeighborsIn(c, p) :
                          /\ t[x].iface \in DOMAIN ipv4[CoreNode(c)]
                          /\ Peer(CoreNode(c), t[x].iface) = n
                          /\ t[x].nextHop =
                               AddrOn(n, ipv4[CoreNode(c)][t[x].iface].key)

C6_Witness ==
    /\ Configured
    /\ Len(Synthesized(CoreNode(3))) = 4
    /\ pkt.status = "flight"
    /\ Role(pkt.at) = "core"

\* C7: in every table, two entries with the same destination prefix and the
\* same prefix length have the same next hop.
C7_NoConflictingEntries ==
    \A n \in Nodes :
      \A x, y \in DOMAIN routes[n] :
        (routes[n][x].dest = routes[n][y].dest /\ routes[n][x].len = routes[n][y].len)
          => routes[n][x].nextHop = routes[n][y].nextHop

\* the core switches attached to aggregation switch n
CoreNeighbors(n) == {m \in Neighbors(n) : Role(m) = "core"}

\* the entries of aggregation switch n for 10.<q>.0.0/16
UpEntries(n, q) ==
    {x \in DOMAIN routes[n] :
        routes[n][x].dest = Ipv4Address(10, q, 0, 0) /\ routes[n][x].len = 16}

\* the link between nodes n and m
LinkBetween(n, m) ==
    CHOOSE k \in DOMAIN interfaces : interfaces[k].node \in {<<n, m>>, <<m, n>>}

\* C8: at every aggregation switch, for every other pod, the (nextHop,
\* interface) pairs of the pod's /16 entries are exactly, for each attached
\* core switch, the core's address on the shared link with the local interface
\* of that link: two entries, two distinct pairs.
C8_UpwardCandidates ==
    Configured =>
      \A n \in AggrSwitches :
        \A q \in 0..(NUM_PODS - 1) :
          q # n[2] =>
            /\ Cardinality(CoreNeighbors(n)) = K \div 2
            /\ Cardinality(UpEntries(n, q)) = K \div 2
            /\ {<<routes[n][x].nextHop, routes[n][x].iface>> : x \in UpEntries(n, q)}
                 = {<<AddrOn(c, LinkBetween(n, c)), IfaceOn(n, LinkBetween(n, c))>> :
                      c \in CoreNeighbors(n)}

C8_Witness ==
    /\ Configured
    /\ Cardinality(UpEntries(PodNode(2, 7), 0)) = 2
    /\ pkt.status = "flight"
    /\ Role(pkt.at) = "aggr"
    /\ pkt.dstNode[2] # pkt.at[2]

\* C9: no synthesized entry of an access switch covers the /30 of a server
\* link attached to that access switch.
C9_NoSelfAggregate ==
    Configured =>
      \A n \in AccessSwitches :
        \A x \in DOMAIN Synthesized(n) :
          \A k \in ServerKeys :
            interfaces[k].node[2] = n =>
              \A ad \in SubnetOf(k) :
                ~IsMatch(Synthesized(n)[x].len, ad, Synthesized(n)[x].dest)

C9_Witness ==
    /\ Configured
    /\ \E x \in DOMAIN Synthesized(PodNode(1, 4)) : Synthesized(PodNode(1, 4))[x].len = 24
    /\ \E k \in ServerKeys : interfaces[k].node[2] = PodNode(1, 4)

\* C10: a server's table has exactly one synthesized entry, the default route
\* 0.0.0.0/0, whose next hop is the access switch's address on the server's
\* own link and whose interface is the server's single link interface.
C10_ServerDefaultRoute ==
    Configured =>
      \A n \in Servers :
        LET t == Synthesized(n)
        IN  /\ Len(ipv4[n]) = 1
            /\ Len(t) = 1
            /\ t[1].dest = 0
            /\ t[1].len = 0
            /\ t[1].iface = 1
            /\ Role(Peer(n, 1)) = "access"
            /\ t[1].nextHop = AddrOn(Peer(n, 1), ipv4[n][1].key)

C10_Witness ==
    /\ Configured
    /\ Len(Synthesized(PodNode(3, 3))) = 1
    /\ pkt.status = "flight"
    /\ Len(pkt.path) = 2

\* the synthesized entries of node n with prefix dest/len
EntriesFor(n, dest, len) ==
    {x \in DOMAIN Synthesized(n) :
        Synthesized(n)[x].dest = dest /\ Synthesized(n)[x].len = len}

\* C11: an access switch's synthesized table has exactly 1 + 3 entries: one
\* /24 for the other access switch of its pod, one 10.<otherPod>.0.0/16 per
\* other pod, none for itself or its own pod, and every entry has the same
\* next hop, the address of aggregation switch 0 of the pod on the link it
\* shares with this access switch.
C11_AccessTable ==
    Configured =>
      \A p \in 0..(NUM_PODS - 1), a \in 0..1 :
        LET me == PodNode(p, 4 + a)
            t == Synthesized(me)
            up == LinkBetween(me, PodNode(p, 6))
        IN  /\ Len(t) = 1 + (NUM_PODS - 1)
            /\ Cardinality(EntriesFor(me, Ipv4Address(10, p, 1 - a, 0), 24)) = 1
            /\ EntriesFor(me, Ipv4Address(10, p, a, 0), 24) = {}
            /\ \A q \in 0..(NUM_PODS - 1) :
                 Cardinality(EntriesFor(me, Ipv4Address(10, q, 0, 0), 16))
                   = IF q = p THEN 0 ELSE 1
            /\ \A x \in DOMAIN t :
                 /\ t[x].nextHop = AddrOn(PodNode(p, 6), up)
                 /\ t[x].len \in {16, 24}

C11_Witness ==
    /\ Configured
    /\ Len(Synthesized(PodNode(2, 5))) = 4
    /\ pkt.status = "flight"
    /\ pkt.at = PodNode(2, 5)
    /\ pkt.dstNode[2] # 2

\* C12: an aggregation switch's table has, for each access switch of its pod,
\* exactly one entry 10.<pod>.<accessId>.0/24; its next hop is that access
\* switch's address on the link the two share and its interface is the
\* aggregation switch's interface on that link.
C12_AggrDownward ==
    Configured =>
      \A p \in 0..(NUM_PODS - 1), g \in 0..1, a \in 0..1 :
        LET me == PodNode(p, 6 + g)
            acc == PodNode(p, 4 + a)
            t == Synthesized(me)
            e == EntriesFor(me, Ipv4Address(10, p, a, 0), 24)
        IN  /\ Cardinality(e) = 1
            /\ Cardinality({x \in DOMAIN t : t[x].len = 24}) = 2
            /\ \A x \in e :
                 /\ t[x].nextHop = AddrOn(acc, LinkBetween(me, acc))
                 /\ t[x].iface = IfaceOn(me, LinkBetween(me, acc))
                 /\ t[x].iface \in DOMAIN ipv4[me]
                 /\ Peer(me, t[x].iface) = acc

C12_Witness ==
    /\ Configured
    /\ Cardinality(EntriesFor(PodNode(1, 7), Ipv4Address(10, 1, 1, 0), 24)) = 1
    /\ pkt.status = "flight"
    /\ Role(pkt.at) = "aggr"
    /\ pkt.dstNode[2] = pkt.at[2]

\* C14: in every table, entries are ordered by prefix length descending and,
\* for equal prefix length, by destination ascending.
C14_TableOrdered ==
    \A n \in Nodes :
      \A x, y \in DOMAIN routes[n] :
        x < y =>
          \/ routes[n][x].len > routes[n][y].len
          \/ /\ routes[n][x].len = routes[n][y].len
             /\ routes[n][x].dest <= routes[n][y].dest

\* the core switches whose id is i*(K/2)+j for some j
CoreGroup(g) == {CoreNode(g * (K \div 2) + jj) : jj \in 0..((K \div 2) - 1)}

\* C15: every aggregation-core link joins aggregation switch i of a pod with
\* a core switch i*(K/2)+j; once built, aggregation switch i of every pod is
\* linked to exactly those K/2 core switches; and the /16 entries that route
\* synthesis gives aggregation switch i leave through links to exactly those
\* core switches, and those of core switch i*(K/2)+j through links to
\* aggregation switch i of each pod.
C15_CoreMapping ==
    /\ \A k \in AggrKeys :
         /\ Role(interfaces[k].node[1]) = "aggr"
         /\ interfaces[k].node[2] \in CoreGroup(interfaces[k].node[1][3] - 6)
         /\ interfaces[k].node = <<PodNode(k[2], 6 + k[3]), CoreNode(k[4])>>
    /\ Configured =>
         /\ \A p \in 0..(NUM_PODS - 1), g \in 0..((K \div 2) - 1) :
              LET me == PodNode(p, 6 + g)
                  t == routes[me]
              IN  /\ CoreNeighbors(me) = CoreGroup(g)
                  /\ {Peer(me, t[x].iface) : x \in {y \in DOMAIN t : t[y].len = 16}}
                       = CoreGroup(g)
         /\ \A g \in 0..((K \div 2) - 1) :
              \A c \in CoreGroup(g) :
                {Peer(c, routes[c][x].iface) :
                    x \in {y \in DOMAIN routes[c] : routes[c][y].len = 16}}
                  = {PodNode(p, 6 + g) : p \in 0..(NUM_PODS - 1)}

C15_Witness ==
    /\ Configured
    /\ CoreNeighbors(PodNode(3, 7)) = {CoreNode(2), CoreNode(3)}
    /\ CoreNeighbors(PodNode(0, 7)) = CoreNeighbors(PodNode(3, 7))

\* the neighbours of n in tier r
NeighborsIn(n, r) == {m \in Neighbors(n) : Role(m) = r}

\* C16: in the built topology every server has one link, to an access
\* switch; every access switch has links to exactly 2 servers and to both
\* aggregation switches of its pod; every aggregation switch has links to
\* both access switches of its pod and to exactly 2 core switches; no two
\* links join the same pair of nodes.
C16_Degrees ==
    Configured =>
      /\ \A n \in Servers :
           /\ Len(ipv4[n]) = 1
           /\ Cardinality(NeighborsIn(n, "access")) = 1
      /\ \A n \in AccessSwitches :
           /\ Len(ipv4[n]) = K
           /\ Cardinality(NeighborsIn(n, "server")) = K \div 2
           /\ NeighborsIn(n, "aggr") = {PodNode(n[2], 6), PodNode(n[2], 7)}
           /\ \A m \in Neighbors(n) : m[2] = n[2]
      /\ \A n \in AggrSwitches :
           /\ Len(ipv4[n]) = K
           /\ NeighborsIn(n, "access") = {PodNode(n[2], 4), PodNode(n[2], 5)}
           /\ Cardinality(NeighborsIn(n, "core")) = K \div 2
      /\ \A k1, k2 \in DOMAIN interfaces :
           k1 # k2 => interfaces[k1].node # interfaces[k2].node

C16_Witness ==
    /\ Configured
    /\ Cardinality(NeighborsIn(PodNode(2, 5), "server")) = 2
    /\ Cardinality(NeighborsIn(PodNode(2, 6), "core")) = 2

\* the fourth octet of an address
LastOctet(ad) == ad % 256

\* C17: the /30 of every access-aggregation link has last octet 16, 20, 24
\* or 28 and that of every server link 0, 4, 8 or 12; no address of an
\* access-aggregation link is matched by a /24 entry of any table; distinct
\* access-aggregation links have distinct /30s.
C17_SwitchLinkOffsets ==
    /\ \A k \in LowerKeys :
         /\ LastOctet((interfaces[k].addr[1] \div 4) * 4) \in {16, 20, 24, 28}
         /\ \A k2 \in LowerKeys :
              k # k2 => SubnetOf(k) \cap SubnetOf(k2) = {}
         /\ \A n \in Nodes :
              \A x \in DOMAIN routes[n] :
                routes[n][x].len = 24 =>
                  /\ ~IsMatch(24, interfaces[k].addr[1], routes[n][x].dest)
                  /\ ~IsMatch(24, interfaces[k].addr[2], routes[n][x].dest)
         /\ \A a \in 0..1 :
              /\ ~IsMatch(24, interfaces[k].addr[1], Ipv4Address(10, k[2], a, 0))
              /\ ~IsMatch(24, interfaces[k].addr[2], Ipv4Address(10, k[2], a, 0))
    /\ \A k \in ServerKeys :
         LastOctet((interfaces[k].addr[1] \div 4) * 4) \in {0, 4, 8, 12}

C17_Witness ==
    /\ Configured
    /\ Cardinality(LowerKeys) = 16
    /\ \E n \in AggrSwitches : \E x \in DOMAIN routes[n] : routes[n][x].len = 24

\* ------------------------------------------------------------------------
\* DCN_FatTree.cc: vocabulary of the claims
\* ------------------------------------------------------------------------
\* the core switches that aggregation switch n has a link to
FtCoreNeighbors(n) == FtNeighbors(n) \cap CoreSwitches

\* the links between the aggregation switches of pod p and the core layer
FtAggrCoreLinks(p) ==
    {d \in DOMAIN ftDev :
       /\ ftDev[d][1] \in {PodNode(p, 6), PodNode(p, 7)}
       /\ ftDev[d][2] \in CoreSwitches}

\* C18: in DCN_FatTree.cc every aggregation switch of every pod is connected
\* to all core switches, which makes 2 x 4 = 8 aggregation-core links per pod
C18_AggrToAllCores ==
    FtConfigured =>
      \A p \in 0..(NUM_PODS - 1) :
        /\ \A a \in 6..7 : FtCoreNeighbors(PodNode(p, a)) = CoreSwitches
        /\ Cardinality(FtAggrCoreLinks(p)) = 2 * NUM_CORE

\* ------------------------------------------------------------------------
\* l2-switch-protocol.cc: vocabulary of the claims
\* ------------------------------------------------------------------------
\* a unicast frame of Host A for Host C sent when every switch had learned
\* the address of Host C
KnownAToC(fr) == fr.src = HostMac(0) /\ fr.dst = HostMac(2) /\ fr.known

\* Switch0 -> Switch1 -> Switch2, each forwarding by unicast
ChainTrail ==
    << <<Switch(0), "unicast">>, <<Switch(1), "unicast">>, <<Switch(2), "unicast">> >>

\* the devices such a frame reaches on that path: the device of each switch
\* that faces Host A, then the device of Host C
ChainDevices ==
    << PeerDevice(HostDevice(0)), PeerDevice(<<Switch(0), 1>>),
       PeerDevice(<<Switch(1), 2>>), HostDevice(2) >>

\* the frames on their way to a switch
OnWire == UNION {{l2Wire[d][n] : n \in DOMAIN l2Wire[d]} : d \in SwitchDevices}

\* the copies of the frames sent so far, on a link or arrived at a host
L2Frames == OnWire \cup l2Rx

\* the last frame a switch handled had a destination absent from its table
\* and was sent from every device of the switch but the one it came in on
FloodedIfUnlearned ==
    (l2Last.mode # "none" /\ l2Last.dst \notin DOMAIN l2Table[l2Last.node]) =>
      /\ l2Last.mode \in {"flood", "broadcast"}
      /\ {l2Last.out[k] : k \in DOMAIN l2Last.out} =
           {dv \in 0..(GetNDevices(l2Last.node) - 1) : dv # l2Last.inDevice}

\* every copy of a frame of Host A for Host C sent after all switches learned
\* Host C is somewhere on the path of unicast hops, so never at Host B
OnChain ==
    \A fr \in L2Frames :
      KnownAToC(fr) =>
        \E n \in 0..Len(ChainTrail) :
          /\ fr.trail = SubSeq(ChainTrail, 1, n)
          /\ fr.at = ChainDevices[n + 1]

\* every such frame that is on no link any more has arrived at Host C over
\* the three unicast hops
ReachedHostC ==
    \A id \in DOMAIN l2Sent :
      (KnownAToC(l2Sent[id]) /\ \A fr \in OnWire : fr.id # id) =>
        \E fr \in l2Rx : /\ fr.id = id
                         /\ fr.at = HostDevice(2)
                         /\ fr.trail = ChainTrail

\* C20: in the three-switch chain a frame whose destination a switch has not
\* learned is flooded, and once every switch has learned the address of
\* Host C, each unicast frame of Host A for Host C goes Switch0 -> Switch1 ->
\* Switch2 -> Host C by unicast on every switch and is not delivered to
\* Host B
C20_ChainForwarding == FloodedIfUnlearned /\ OnChain /\ ReachedHostC

\* a frame of Host A sent after all switches learned Host C has reached
\* Host C over the three unicast hops, no copy of it reached Host B, and a
\* frame sent earlier was flooded
C20_Witness ==
    /\ \E fr \in l2Rx :
         /\ KnownAToC(fr)
         /\ fr.at = HostDevice(2)
         /\ fr.trail = ChainTrail
         /\ \A other \in L2Frames : other.id = fr.id => other.at # HostDevice(1)
    /\ \E fr \in l2Rx : \E n \in DOMAIN fr.trail : fr.trail[n][2] \in {"flood", "broadcast"}

\* the SendFrom calls of the last frame handled, as the set of devices
LastOut == {l2Last.out[k] : k \in DOMAIN l2Last.out}

\* the table of the switch that handled the last frame
LastTable == l2Table[l2Last.node]

\* a step of ReceiveFromDevice: a frame left the link it was on
Handled == \E d \in SwitchDevices : l2Wire[d] # <<>> /\ l2Wire'[d] = Tail(l2Wire[d])

\* C21: after ReceiveFromDevice handled a frame with source address s that
\* arrived on device p, the table of the switch maps s to p (a new entry, or
\* the old device overwritten), every other entry of it and every other
\* table is unchanged, and the address was learned before the forwarding
\* decision: a frame addressed to its own source finds the entry just made
C21_LearnEffect ==
    [][Handled =>
         LET n == l2Last'.node
             s == l2Last'.src
         IN  /\ DOMAIN l2Table'[n] = DOMAIN l2Table[n] \cup {s}
             /\ l2Table'[n][s] = l2Last'.inDevice
             /\ \A m \in DOMAIN l2Table[n] \ {s} : l2Table'[n][m] = l2Table[n][m]
             /\ \A o \in Switches \ {n} : l2Table'[o] = l2Table[o]
             /\ l2Last'.dst = s => l2Last'.mode = "drop"]_vars

\* Switch 1 has moved a learned address to the device a later frame of that
\* source arrived on, and has dropped that frame, addressed to its own source
C21_Witness ==
    /\ \E x, y \in DOMAIN l2Sent :
         /\ x < y
         /\ l2Sent[x].src = l2Sent[y].src
         /\ l2Sent[x].at # l2Sent[y].at
         /\ l2Last.node = Switch(1)
         /\ l2Last.src = l2Sent[y].src
         /\ l2Last.inDevice = l2Sent[y].at[2]
         /\ LastTable[l2Last.src] = l2Sent[y].at[2]
         /\ l2Last.dst = l2Last.src
         /\ l2Last.mode = "drop"

\* the devices of the switch that handled the last frame, but the ingress one
OtherDevices == {dv \in 0..(GetNDevices(l2Last.node) - 1) : dv # l2Last.inDevice}

\* the last frame handled was for the broadcast address or for an address
\* absent from the table
LastUnlearned == l2Last.dst = Broadcast \/ l2Last.dst \notin DOMAIN LastTable

\* C22: whenever a switch floods a frame (destination broadcast, or unicast
\* and absent from the table) it sends exactly one copy from every device
\* other than the ingress device and none from the ingress device
C22_FloodCopies ==
    (l2Last.mode # "none" /\ LastUnlearned) =>
      /\ l2Last.mode \in {"broadcast", "flood"}
      /\ \A dv \in OtherDevices :
           Cardinality({k \in DOMAIN l2Last.out : l2Last.out[k] = dv}) = 1
      /\ l2Last.inDevice \notin LastOut
      /\ Len(l2Last.out) = Cardinality(OtherDevices)

\* Switch 1 has flooded a frame for an unlearned unicast address that came
\* in on its middle device: one copy from each of the two other devices
C22_Witness ==
    /\ l2Last.node = Switch(1)
    /\ l2Last.mode = "flood"
    /\ l2Last.inDevice = 1
    /\ l2Last.out = <<0, 2>>

\* C23: when a switch receives a unicast frame whose destination is in its
\* table on a device other than the ingress device, it sends the frame from
\* that device only, exactly once
C23_UnicastOnce ==
    (/\ l2Last.mode # "none"
     /\ l2Last.dst # Broadcast
     /\ l2Last.dst \in DOMAIN LastTable
     /\ LastTable[l2Last.dst] # l2Last.inDevice) =>
      /\ l2Last.mode = "unicast"
      /\ l2Last.out = <<LastTable[l2Last.dst]>>

\* Switch 1 has forwarded a frame by unicast from the one device its
\* destination was learned on
C23_Witness ==
    /\ l2Last.node = Switch(1)
    /\ l2Last.mode = "unicast"
    /\ l2Last.dst \in DOMAIN LastTable
    /\ LastTable[l2Last.dst] # l2Last.inDevice
    /\ l2Last.out = <<LastTable[l2Last.dst]>>

\* C24: when the learned device of a unicast frame's destination is the
\* ingress device the switch sends the frame from no device, which includes
\* every frame whose destination is its own source address
C24_DropOnSamePort ==
    /\ (/\ l2Last.mode # "none"
        /\ l2Last.dst # Broadcast
        /\ l2Last.dst \in DOMAIN LastTable
        /\ LastTable[l2Last.dst] = l2Last.inDevice) =>
         (l2Last.mode = "drop" /\ l2Last.out = <<>>)
    /\ (l2Last.mode # "none" /\ l2Last.dst = l2Last.src) =>
         (l2Last.mode = "drop" /\ l2Last.out = <<>>)

\* a switch has dropped a frame of one station for another station learned
\* on the ingress device, and no copy of the frame went anywhere
C24_Witness ==
    /\ l2Last.mode = "drop"
    /\ l2Last.dst # l2Last.src
    /\ LastTable[l2Last.dst] = l2Last.inDevice
    /\ l2Last.out = <<>>
    /\ \A d \in SwitchDevices : l2Wire[d] = <<>>

\* ------------------------------------------------------------------------
\* DCN_FatTree_Custom.cc: next hops, choices among cores, unused switches
\* ------------------------------------------------------------------------
\* entry x of node n names an interface of n, and its next hop is the address
\* of the node at the other end of that interface's link
NextHopOnLink(n, x) ==
    LET e == routes[n][x]
    IN  /\ e.iface \in DOMAIN ipv4[n]
        /\ e.nextHop = AddrOn(Peer(n, e.iface), ipv4[n][e.iface].key)
        /\ e.nextHop # ipv4[n][e.iface].local

\* C25: every next-hop address of every synthesized route entry is the
\* far-end address of a link attached to the node that holds the entry, and
\* the entry's egress interface is the node's own interface on that link
C25_NextHopOnLink ==
    \A n \in Nodes :
      \A x \in DOMAIN routes[n] :
        routes[n][x].nextHop # 0 => NextHopOnLink(n, x)

\* the tables are complete: access, aggregation (down and up) and core
\* switches each hold an entry whose next hop is the neighbour of that tier
C25_Witness ==
    /\ Configured
    /\ \E x \in DOMAIN routes[PodNode(1, 4)] :
         /\ routes[PodNode(1, 4)][x].nextHop = AddrOn(PodNode(1, 6), LowerKey(1, 0, 0))
         /\ Peer(PodNode(1, 4), routes[PodNode(1, 4)][x].iface) = PodNode(1, 6)
    /\ \E x \in DOMAIN routes[PodNode(1, 7)] :
         /\ routes[PodNode(1, 7)][x].nextHop = AddrOn(PodNode(1, 5), LowerKey(1, 1, 1))
         /\ Peer(PodNode(1, 7), routes[PodNode(1, 7)][x].iface) = PodNode(1, 5)
    /\ \E x \in DOMAIN routes[PodNode(1, 7)] :
         /\ routes[PodNode(1, 7)][x].nextHop = AddrOn(CoreNode(3), AggrKey(1, 1, 3))
         /\ Peer(PodNode(1, 7), routes[PodNode(1, 7)][x].iface) = CoreNode(3)
    /\ \E x \in DOMAIN routes[CoreNode(3)] :
         /\ routes[CoreNode(3)][x].nextHop = AddrOn(PodNode(1, 7), AggrKey(1, 1, 3))
         /\ Peer(CoreNode(3), routes[CoreNode(3)][x].iface) = PodNode(1, 7)

\* the addresses of the servers of pod q
ServerAddrs(q) == {GetAddress(k, 0) : k \in {y \in ServerKeys : y[2] = q}}

\* C26: at an aggregation switch, for a destination in another pod, whichever
\* attached core switch is chosen among the equal /16 candidates, that core
\* switch routes the destination by a /16 of the destination pod to the
\* aggregation switch of the same index in that pod; no packet is dropped.
\* (The tables are final once configured: they are examined in the state
\* before the first packet, the packets in every state.)
C26_EveryCoreChoiceDelivers ==
    /\ (Configured /\ pkt = NoPacket) =>
         \A n \in AggrSwitches :
           \A q \in 0..(NUM_PODS - 1) :
             q # n[2] =>
               \A dst \in ServerAddrs(q) :
                 /\ Cardinality(LookupStatic(n, dst)) = K \div 2
                 /\ \A x \in LookupStatic(n, dst) :
                      LET c == Peer(n, routes[n][x].iface)
                      IN  /\ Role(c) = "core"
                          /\ LookupStatic(c, dst) # {}
                          /\ \A y \in LookupStatic(c, dst) :
                               /\ routes[c][y].len = 16
                               /\ routes[c][y].dest = Ipv4Address(10, q, 0, 0)
                               /\ Peer(c, routes[c][y].iface) = PodNode(q, n[3])
                               /\ routes[c][y].nextHop =
                                    AddrOn(PodNode(q, n[3]), ipv4[c][routes[c][y].iface].key)
    /\ pkt.status \notin {"ttl", "noroute"}
    /\ \A x \in DOMAIN pkt.path :
         (Role(pkt.path[x]) = "core" /\ x < Len(pkt.path)) =>
           pkt.path[x + 1] = PodNode(pkt.dstNode[2], pkt.path[x - 1][3])

\* a packet for another pod went from aggregation switch 0 through core
\* switch 1, the second of the two candidates, and was delivered
C26_Witness ==
    /\ pkt.status = "delivered"
    /\ Len(pkt.path) = 7
    /\ pkt.path[3] = PodNode(pkt.src[2], 6)
    /\ pkt.path[4] = CoreNode(1)
    /\ pkt.path[5] = PodNode(pkt.dstNode[2], 6)

\* aggregation switch 1 of every pod and core switches 2 and 3
OffPath == {PodNode(p, 7) : p \in 0..(NUM_PODS - 1)} \cup {CoreNode(2), CoreNode(3)}

\* C27: no server-to-server forwarding path traverses aggregation switch 1
\* of any pod or core switch 2 or 3
C27_UnusedSwitches ==
    \A x \in DOMAIN pkt.path : pkt.path[x] \notin OffPath

\* a packet between pods has been delivered over aggregation switches 0 and
\* a core switch below 2, and one between the access switches of a pod over
\* aggregation switch 0
C27_Witness ==
    /\ pkt.status = "delivered"
    /\ \/ /\ Len(pkt.path) = 7
          /\ pkt.path[4] \in {CoreNode(0), CoreNode(1)}
       \/ /\ Len(pkt.path) = 5
          /\ pkt.path[3] = PodNode(pkt.src[2], 6)
    /\ \A x \in DOMAIN pkt.path : pkt.path[x] \notin OffPath

\* the destinations of the /16 entries of all tables
PodAggregates ==
    UNION {{routes[n][x].dest : x \in {y \in DOMAIN routes[n] : routes[n][y].len = 16}}
           : n \in Nodes}

\* C28: no address of an aggregation-core link (10.10.<seq/64>.<(seq%64)*4>/30)
\* is matched by a pod aggregate 10.<pod>.0.0/16 of any table
C28_CoreLinksOutsidePods ==
    \A k \in AggrKeys :
      \A addr \in SubnetOf(k) :
        \A d \in PodAggregates : ~IsMatch(16, addr, d)

\* all sixteen core links are addressed and the /16 aggregates are installed
C28_Witness ==
    /\ Configured
    /\ Cardinality(AggrKeys) = 16
    /\ SubnetOf(AggrKey(3, 1, 3)) = Ipv4Address(10, 10, 0, 60)..Ipv4Address(10, 10, 0, 63)
    /\ \E x \in DOMAIN routes[CoreNode(3)] :
         routes[CoreNode(3)][x].len = 16 /\ routes[CoreNode(3)][x].dest = Ipv4Address(10, 3, 0, 0)

====
